---------------------------- MODULE Spec2Model ----------------------------
(***************************************************************************)
(* Model of coderefs/alias.go: GenerateAliases, processFileContent,        *)
(* generateAlias and globToAbsolutePaths.                                  *)
(*                                                                         *)
(* Strings are sequences of one-character strings, so that substitution,   *)
(* regular-expression matching, case conversion and concatenation are      *)
(* computed and not assumed.                                               *)
(***************************************************************************)
EXTENDS Integers, Sequences, FiniteSets, TLC

\* ------------------------------------------------------------------ bounds
\* Longest list of flag keys handed to GenerateAliases.
MaxFlags == 2
\* Longest list of alias rules handed to GenerateAliases.
MaxRules == 2

\* ----------------------------------------------------------------- helpers
RECURSIVE Flatten(_)
\* Concatenation of a sequence of sequences, in order.
Flatten(ss) == IF ss = <<>> THEN <<>> ELSE Head(ss) \o Flatten(Tail(ss))

Range(s) == {s[i] : i \in 1..Len(s)}

\* Sequences over S without repetition, of length at most n.
DistinctSeqs(S, n) ==
    {s \in UNION {[1..k -> S] : k \in 0..n} :
        \A i, j \in 1..Len(s) : i # j => s[i] # s[j]}

SeqsUpTo(S, n) == UNION {[1..k -> S] : k \in 0..n}

RECURSIVE DedupeFrom(_, _, _)
DedupeFrom(s, i, acc) ==
    IF i > Len(s) THEN acc
    ELSE DedupeFrom(s, i + 1,
                    IF s[i] \in Range(acc) THEN acc ELSE Append(acc, s[i]))

\* helpers.Dedupe: stable removal of repeats, the first occurrence of each
\* string keeps its position.
Dedupe(s) == DedupeFrom(s, 1, <<>>)

\* ------------------------------------------------------- case conversion
Delimiters == {" ", "_", "-", "."}

Upper(c) == CASE c = "a" -> "A" [] c = "b" -> "B" [] OTHER -> c
Lower(c) == CASE c = "A" -> "a" [] c = "B" -> "b" [] OTHER -> c
IsUpper(c) == c \in {"A", "B"}
IsLower(c) == c \in {"a", "b"}

RECURSIVE CamelFrom(_, _, _)
\* strcase.toCamelInitCase: delimiters are dropped and capitalise the next
\* letter; an upper-case letter is kept.
CamelFrom(s, i, capNext) ==
    IF i > Len(s) THEN <<>>
    ELSE LET c == s[i] IN
         IF c \in Delimiters THEN CamelFrom(s, i + 1, TRUE)
         ELSE IF IsLower(c) /\ capNext THEN <<Upper(c)>> \o CamelFrom(s, i + 1, FALSE)
         ELSE <<c>> \o CamelFrom(s, i + 1, FALSE)

ToCamel(s) == CamelFrom(s, 1, TRUE)
ToLowerCamel(s) == CamelFrom(s, 1, FALSE)

RECURSIVE DelimitedFrom(_, _, _, _)
\* strcase.ToScreamingDelimited: a delimiter is replaced by d, a lower to
\* upper transition inserts d, letters are lowered (or raised when screaming).
DelimitedFrom(s, i, d, screaming) ==
    IF i > Len(s) THEN <<>>
    ELSE LET c == s[i]
             out == IF screaming THEN Upper(c) ELSE Lower(c)
             brk == /\ i < Len(s)
                    /\ IsLower(c)
                    /\ IsUpper(s[i + 1])
         IN  IF c \in Delimiters THEN <<d>> \o DelimitedFrom(s, i + 1, d, screaming)
             ELSE IF brk THEN <<out, d>> \o DelimitedFrom(s, i + 1, d, screaming)
             ELSE <<out>> \o DelimitedFrom(s, i + 1, d, screaming)

ToSnake(s) == DelimitedFrom(s, 1, "_", FALSE)
ToScreamingSnake(s) == DelimitedFrom(s, 1, "_", TRUE)
ToKebab(s) == DelimitedFrom(s, 1, "-", FALSE)
ToDelimited(s, d) == DelimitedFrom(s, 1, d, FALSE)


\* ------------------------------------------------- regular expressions
\* The regular expressions of the model: a string over literals, "." (any
\* character), and the capture-group parentheses "(" and ")".
Placeholder == "FLAG_KEY"

RECURSIVE ReplaceAll(_, _)
\* strings.ReplaceAll(p, "FLAG_KEY", flag): the placeholder is one element
\* of a template, replaced by the characters of the flag key.
ReplaceAll(p, flag) ==
    IF p = <<>> THEN <<>>
    ELSE (IF Head(p) = Placeholder THEN flag ELSE <<Head(p)>>)
         \o ReplaceAll(Tail(p), flag)

RECURSIVE ParenDepth(_, _, _)
\* Depth of parentheses after re[1..i], or -1 once a ")" closes nothing.
ParenDepth(re, i, d) ==
    IF d < 0 THEN -1
    ELSE IF i > Len(re) THEN d
    ELSE ParenDepth(re, i + 1,
                    CASE re[i] = "(" -> d + 1 [] re[i] = ")" -> d - 1 [] OTHER -> d)

\* regexp.Compile succeeds: the parentheses are balanced.
Compiles(re) == ParenDepth(re, 1, 0) = 0

IsParen(c) == c \in {"(", ")"}

\* The atoms of re: its elements that consume one character.
Atoms(re) == SelectSeq(re, LAMBDA c : ~IsParen(c))

\* Number of atoms in re[1..k].
AtomsBefore(re, k) == Len(Atoms(SubSeq(re, 1, k)))

RECURSIVE CloseOf(_, _, _)
\* Index of the ")" that closes the "(" at index k (d = open depth so far).
CloseOf(re, k, d) ==
    LET d2 == CASE re[k] = "(" -> d + 1 [] re[k] = ")" -> d - 1 [] OTHER -> d
    IN  IF d2 = 0 THEN k ELSE CloseOf(re, k + 1, d2)

\* The capture groups of re in the order of their opening parentheses, each
\* as the span <<first atom, last atom>> it covers.
Groups(re) ==
    LET opens == SelectSeq([i \in 1..Len(re) |-> i], LAMBDA i : re[i] = "(")
    IN  [g \in 1..Len(opens) |->
            <<AtomsBefore(re, opens[g]) + 1,
              AtomsBefore(re, CloseOf(re, opens[g], 0))>>]

\* re matches the text at offset i (0-based): each atom takes one character.
MatchAt(re, text, i) ==
    LET at == Atoms(re) IN
    /\ i + Len(at) <= Len(text)
    /\ \A j \in 1..Len(at) : at[j] = "." \/ at[j] = text[i + j]

\* One element of FindAllStringSubmatch: the whole match, then every capture
\* group in group order.
Submatch(re, text, i) ==
    LET gs == Groups(re) IN
    <<SubSeq(text, i + 1, i + Len(Atoms(re)))>>
    \o [g \in 1..Len(gs) |-> SubSeq(text, i + gs[g][1], i + gs[g][2])]

RECURSIVE AllMatches(_, _, _, _)
\* regexp.(*Regexp).allMatches: leftmost matches from pos on, not
\* overlapping; an empty match right after the previous match is dropped.
AllMatches(re, text, pos, prevMatchEnd) ==
    LET w == Len(Atoms(re))
        starts == {i \in pos..Len(text) : MatchAt(re, text, i)}
    IN  IF pos > Len(text) \/ starts = {} THEN <<>>
        ELSE LET i == CHOOSE m \in starts : \A n \in starts : m <= n
             IN  IF w = 0
                 THEN (IF i = prevMatchEnd THEN <<>> ELSE <<Submatch(re, text, i)>>)
                      \o AllMatches(re, text, i + 1, i)
                 ELSE <<Submatch(re, text, i)>>
                      \o AllMatches(re, text, i + w, i + w)

\* pattern.FindAllStringSubmatch(text, -1)
FindAllStringSubmatch(re, text) == AllMatches(re, text, 0, -1)


\* ------------------------------------------------------------ file system
\* The base directory handed to GenerateAliases.
Dir == "/repo"

\* The directory's entries in the order fs.ReadDir lists them (by name).
NameOrder == <<"x", "y">>

\* A directory entry: "ok" is a readable regular file, "missing" is an entry
\* the glob lists and validation.FileExists rejects, "unreadable" is a file
\* ioutil.ReadFile fails on.
Entry(status, data) == [status |-> status, data |-> data]

FsChoices ==
    { [x |-> Entry("ok", <<"b", "a">>),     y |-> Entry("ok", <<"-", "b", "a">>)],
      [x |-> Entry("ok", <<"b", "a">>),     y |-> Entry("missing", <<>>)],
      [x |-> Entry("unreadable", <<>>),     y |-> Entry("ok", <<"-", "b", "a">>)],
      [x |-> Entry("ok", <<>>),             y |-> Entry("ok", <<"-", "b", "a">>)] }

\* doublestar.ValidatePattern: an unclosed character class is malformed.
ValidPattern(pattern) == pattern # "["

\* One name against one pattern: "*" matches every name of the directory,
\* a pattern without metacharacters matches the name equal to it.
GlobMatch(pattern, name) == pattern = "*" \/ pattern = name

\* doublestar.Glob(fsys, pattern): the matching entries in listing order,
\* or ErrBadPattern.
Glob(fsys, pattern) ==
    IF ~ValidPattern(pattern) THEN [err |-> TRUE, matches |-> <<>>]
    ELSE [err |-> FALSE,
          matches |-> SelectSeq(NameOrder,
                          LAMBDA n : n \in DOMAIN fsys /\ GlobMatch(pattern, n))]

\* strings.Join([]string{basepath, match}, "/")
JoinPath(basepath, match) == <<basepath, "/", match>>

\* filepath.Join(basepath, pattern), used in diagnostics only.
FilepathJoin(basepath, pattern) == <<basepath, "/", pattern>>

\* An error value: the message format, the rule it names and the path or
\* cause it carries.  NoErr is Go's nil error.
NoErr == [msg |-> "", id |-> <<>>, arg |-> <<>>]
Error(msg, id, arg) == [msg |-> msg, id |-> id, arg |-> arg]

\* globToAbsolutePaths reporting a glob without matches as an error.
globToAbsolutePathsStrict(fsys, basepath, pattern) ==
    LET g == Glob(fsys, pattern) IN
    IF g.err \/ g.matches = <<>>
    THEN [paths |-> <<>>,
          err |-> Error("could not process path glob", <<>>,
                        FilepathJoin(basepath, pattern))]
    ELSE [paths |-> [i \in 1..Len(g.matches) |-> JoinPath(basepath, g.matches[i])],
          err |-> NoErr]

globToAbsolutePaths(fsys, basepath, pattern) ==
    LET g == Glob(fsys, pattern) IN
    IF g.err
    THEN [paths |-> <<>>,
          err |-> Error("could not process path glob", <<>>,
                        FilepathJoin(basepath, pattern))]
    ELSE [paths |-> [i \in 1..Len(g.matches) |-> JoinPath(basepath, g.matches[i])],
          err |-> NoErr]

\* validation.FileExists(path)
FileExists(fsys, path) == path[3] \in DOMAIN fsys /\ fsys[path[3]].status # "missing"

\* ioutil.ReadFile(path)
ReadFile(fsys, path) ==
    IF fsys[path[3]].status = "ok"
    THEN [data |-> fsys[path[3]].data, err |-> FALSE]
    ELSE [data |-> <<>>, err |-> TRUE]

\* ------------------------------------------------------------ alias rules
\* options.Alias; Timeout is a pointer: <<>> is nil, <<n>> points to n.
Alias(type, name, flagMap, paths, patterns, command, timeout) ==
    [Type |-> type, Name |-> name, Flags |-> flagMap, Paths |-> paths,
     Patterns |-> patterns, Command |-> command, Timeout |-> timeout]

CaseTypes == {"camelcase", "pascalcase", "snakecase", "uppersnakecase",
              "kebabcase", "dotcase"}

\* The flag keys of the model (lower-case letters and delimiters).
K1 == <<"a">>
K2 == <<"a", "-", "b">>
FlagKeys == {K1, K2}

\* Templates: FLAG_KEY(.), FLAG_KEY, (FLAG_KEY and (.)FLAG_KEY(.)
T1 == <<Placeholder, "(", ".", ")">>
T2 == <<Placeholder>>
T3 == <<"(", Placeholder>>
T4 == <<"(", ".", ")", Placeholder, "(", ".", ")">>

LiteralRules ==
    { Alias("literal", "", (K2 :> << <<"a", "_", "b">>, <<"x">>, <<"a", "_", "b">> >>),
            <<>>, <<>>, <<>>, <<>>),
      Alias("literal", "", (K1 :> <<>>) @@ (K2 :> << <<"a", "-", "b">> >>),
            <<>>, <<>>, <<>>, <<>>) }

CaseRules == {Alias(t, "", <<>>, <<>>, <<>>, <<>>, <<>>) : t \in CaseTypes}

FilePatternRules ==
    { Alias("filepattern", "",    <<>>, <<"*", "x">>, <<T1, T2>>, <<>>, <<>>),
      Alias("filepattern", "n",   <<>>, <<"y", "x">>, <<T4>>,     <<>>, <<>>),
      Alias("filepattern", "",    <<>>, <<"q">>,      <<T1>>,     <<>>, <<>>),
      Alias("filepattern", "bad", <<>>, <<"x", "[">>, <<T1>>,     <<>>, <<>>),
      Alias("filepattern", "",    <<>>, <<"x">>,      <<T2, T3>>, <<>>, <<>>) }

CommandRules ==
    { Alias("command", "", <<>>, <<>>, <<>>, <<"gen", " ", "-j">>, t) :
        t \in {<<>>, <<0>>, <<1>>} }

RuleChoices == LiteralRules \cup CaseRules \cup FilePatternRules \cup CommandRules

\* ------------------------------------------------------ external process
\* What the spawned process does: whether it starts, whether and after how
\* many seconds it exits, its exit code and its standard output as JSON
\* tokens.
Tok(kind, val) == [kind |-> kind, val |-> val]
JsonArray(strs) ==
    <<Tok("[", <<>>)>> \o [i \in 1..Len(strs) |-> Tok("string", strs[i])]
    \o <<Tok("]", <<>>)>>

Proc(started, exits, secs, code, stdout) ==
    [started |-> started, exits |-> exits, secs |-> secs, code |-> code,
     stdout |-> stdout]

ProcChoices ==
    { Proc(TRUE,  TRUE,  0, 0, JsonArray(<< <<"x">>, <<"a", "_", "b">>, <<"x">> >>)),
      Proc(TRUE,  TRUE,  2, 0, JsonArray(<< <<"s">> >>)),
      Proc(TRUE,  FALSE, 0, 0, <<>>),
      Proc(TRUE,  TRUE,  0, 1, <<>>),
      Proc(TRUE,  TRUE,  0, 0, <<Tok("{", <<>>)>>),
      Proc(FALSE, FALSE, 0, 0, <<>>) }

\* json.Unmarshal(stdout, &ret) into a []string.
Unmarshal(stdout) ==
    LET n == Len(stdout) IN
    IF /\ n >= 2
       /\ stdout[1].kind = "["
       /\ stdout[n].kind = "]"
       /\ \A i \in 2..(n - 1) : stdout[i].kind = "string"
    THEN [val |-> [i \in 1..(n - 2) |-> stdout[i + 1].val], err |-> FALSE]
    ELSE [val |-> <<>>, err |-> TRUE]


\* ------------------------------------------------------------------ state
VARIABLES
    flags,            \* GenerateAliases' flags argument
    aliases,          \* GenerateAliases' aliases argument
    fs,               \* the entries of dir
    pc,               \* where the call is: "cache", "eval", then how it ended
    idx,              \* processFileContent: index of the rule being loaded
    allFileContents,  \* the cache: absolute path -> content
    reads,            \* absolute path -> number of ioutil.ReadFile calls
    checks,           \* absolute path -> number of validation.FileExists calls
    fi,               \* GenerateAliases: index of the flag being resolved
    ri,               \* GenerateAliases: index of the rule being applied
    ret,              \* GenerateAliases' local map: flag -> aliases
    result,           \* the returned map: <<>> is nil, <<m>> is the map m
    err,              \* the returned error
    evals             \* the generateAlias calls made so far, in order

vars == <<flags, aliases, fs, pc, idx, allFileContents, reads, checks, fi, ri,
          ret, result, err, evals>>

AllPaths == {JoinPath(Dir, NameOrder[i]) : i \in 1..Len(NameOrder)}

\* Go map read and write: a missing key reads as the nil slice.
MapGet(m, k) == IF k \in DOMAIN m THEN m[k] ELSE <<>>
MapSet(m, k, v) == [x \in DOMAIN m \cup {k} |-> IF x = k THEN v ELSE m[x]]

Digits == <<"0", "1", "2", "3", "4", "5", "6", "7", "8", "9">>
RECURSIVE Itoa(_)
\* strconv.Itoa for n >= 0
Itoa(n) == IF n < 10 THEN <<Digits[n + 1]>>
           ELSE Itoa(n \div 10) \o <<Digits[(n % 10) + 1]>>

\* processFileContent's aliasId; i is the rule's 1-based position.
AliasId(i, a) == IF a.Name # "" THEN <<a.Name>> ELSE Itoa(i - 1)

\* --------------------------------------------------- processFileContent
\* Expansion of every glob of rule a, in glob order: the concatenated matches
\* or the error of the first malformed glob.
ExpandPaths(a, id, fsys) ==
    LET gs == [i \in 1..Len(a.Paths) |-> globToAbsolutePaths(fsys, Dir, a.Paths[i])]
        bad == {i \in 1..Len(gs) : gs[i].err # NoErr}
    IN  IF bad # {}
        THEN LET b == CHOOSE i \in bad : \A j \in bad : i <= j
             IN  [paths |-> <<>>,
                  err |-> Error("filepattern: could not process path glob", id,
                                FilepathJoin(Dir, a.Paths[b]))]
        ELSE [paths |-> Flatten([i \in 1..Len(gs) |-> gs[i].paths]), err |-> NoErr]

\* pathAlreadyProcessed without the lookup: every path is loaded again.
pathNeverProcessed(cache, path) == FALSE

\* The test that skips a path an earlier rule has loaded.
pathAlreadyProcessed(cache, path) == path \in DOMAIN cache

RECURSIVE LoadFrom(_, _, _, _, _)
\* The loop over the deduplicated paths of one rule; st carries the cache,
\* the call counters and the error that stops the loop.
LoadFrom(paths, i, st, id, fsys) ==
    IF i > Len(paths) THEN st
    ELSE LET path == paths[i] IN
         IF pathAlreadyProcessed(st.cache, path)
         THEN LoadFrom(paths, i + 1, st, id, fsys)
         ELSE LET st1 == [st EXCEPT !.checks[path] = @ + 1] IN
              IF ~FileExists(fsys, path)
              THEN [st1 EXCEPT !.err =
                       Error("filepattern: could not find file at path", id, path)]
              ELSE LET st2 == [st1 EXCEPT !.reads[path] = @ + 1]
                       rd == ReadFile(fsys, path)
                   IN  IF rd.err
                       THEN [st2 EXCEPT !.err =
                                Error("filepattern: could not process file at path",
                                      id, path)]
                       ELSE LoadFrom(paths, i + 1,
                                [st2 EXCEPT !.cache = MapSet(@, path, rd.data)],
                                id, fsys)

\* One iteration of processFileContent's loop over the rules.
ProcessFileContent ==
    /\ pc = "cache"
    /\ idx <= Len(aliases)
    /\ LET a == aliases[idx]
           id == AliasId(idx, a)
           ex == ExpandPaths(a, id, fs)
           st == LoadFrom(Dedupe(ex.paths), 1,
                          [cache |-> allFileContents, reads |-> reads,
                           checks |-> checks, err |-> NoErr], id, fs)
       IN  IF a.Type # "filepattern"
           THEN /\ idx' = idx + 1
                /\ UNCHANGED <<pc, allFileContents, reads, checks, result, err>>
           ELSE IF ex.err # NoErr
           THEN /\ pc' = "failed"
                /\ err' = ex.err
                /\ result' = <<>>
                /\ UNCHANGED <<idx, allFileContents, reads, checks>>
           ELSE /\ allFileContents' = st.cache
                /\ reads' = st.reads
                /\ checks' = st.checks
                /\ IF st.err # NoErr
                   THEN /\ pc' = "failed"
                        /\ err' = st.err
                        /\ result' = <<>>
                        /\ UNCHANGED idx
                   ELSE /\ idx' = idx + 1
                        /\ UNCHANGED <<pc, result, err>>
    /\ UNCHANGED <<flags, aliases, fs, fi, ri, ret, evals>>

\* CacheBuilt leaving the loop one rule early.
CacheBuiltEarly ==
    /\ pc = "cache"
    /\ idx > Len(aliases) - 1
    /\ pc' = "eval"
    /\ ret' = <<>>
    /\ UNCHANGED <<flags, aliases, fs, idx, allFileContents, reads, checks, fi, ri,
                   result, err, evals>>

\* processFileContent returns the cache; GenerateAliases makes its map.
CacheBuilt ==
    /\ pc = "cache"
    /\ idx > Len(aliases)
    /\ pc' = "eval"
    /\ ret' = <<>>
    /\ UNCHANGED <<flags, aliases, fs, idx, allFileContents, reads, checks, fi, ri,
                   result, err, evals>>


\* -------------------------------------------------------- generateAlias
\* The result of one generateAlias call: the aliases and the error it
\* returns, or that it panicked or never returned; killed tells that the
\* process was terminated at its deadline, buf is the buffer a file-pattern
\* rule matched against.
Outcome(r, e, how, killed, buf) ==
    [ret |-> r, err |-> e, how |-> how, killed |-> killed, buf |-> buf]

\* ret = a.Flags[flag]
LiteralAliases(a, flag) == MapGet(a.Flags, flag)

CaseAlias(type, flag) ==
    CASE type = "camelcase"      -> ToLowerCamel(flag)
      [] type = "pascalcase"     -> ToCamel(flag)
      [] type = "snakecase"      -> ToSnake(flag)
      [] type = "uppersnakecase" -> ToScreamingSnake(flag)
      [] type = "kebabcase"      -> ToKebab(flag)
      [] type = "dotcase"        -> ToDelimited(flag, ".")

\* The inner loop over one glob's matches: the cached content of each match
\* is appended when it is not empty.
MatchContents(matches, cache) ==
    Flatten([j \in 1..Len(matches) |->
                LET pathFileContents == MapGet(cache, matches[j])
                IN  IF Len(pathFileContents) > 0 THEN pathFileContents ELSE <<>>])

\* FileContents with the matches of all globs deduplicated, as the cache
\* build does.
FileContentsDeduped(a, d, cache, fsys) ==
    LET gs == [i \in 1..Len(a.Paths) |-> globToAbsolutePaths(fsys, d, a.Paths[i])]
        bad == {i \in 1..Len(gs) : gs[i].err # NoErr}
    IN  IF bad # {}
        THEN LET b == CHOOSE i \in bad : \A j \in bad : i <= j
             IN  [buf |-> <<>>,
                  err |-> Error("could not process path glob", <<>>,
                                FilepathJoin(d, a.Paths[b]))]
        ELSE [buf |-> MatchContents(Dedupe(Flatten([i \in 1..Len(gs) |-> gs[i].paths])),
                                    cache),
              err |-> NoErr]

\* The buffer of a file-pattern rule: for each glob in rule order, the
\* contents of its matches; or the error of the first malformed glob.
FileContents(a, d, cache, fsys) ==
    LET gs == [i \in 1..Len(a.Paths) |-> globToAbsolutePaths(fsys, d, a.Paths[i])]
        bad == {i \in 1..Len(gs) : gs[i].err # NoErr}
    IN  IF bad # {}
        THEN LET b == CHOOSE i \in bad : \A j \in bad : i <= j
             IN  [buf |-> <<>>,
                  err |-> Error("could not process path glob", <<>>,
                                FilepathJoin(d, a.Paths[b]))]
        ELSE [buf |-> Flatten([i \in 1..Len(gs) |-> MatchContents(gs[i].paths, cache)]),
              err |-> NoErr]

\* Captures appending the whole match too (res[0:]).
CapturesWithWholeMatch(results) == Flatten(results)

\* The loop over the results of one pattern: res[1:] of every result that
\* has more than one element.
Captures(results) ==
    Flatten([k \in 1..Len(results) |->
                IF Len(results[k]) > 1 THEN Tail(results[k]) ELSE <<>>])

RECURSIVE PatternsFrom(_, _, _, _, _)
\* The loop over a.Patterns; regexp.MustCompile panics on a string that
\* does not compile.
PatternsFrom(patterns, i, flag, text, acc) ==
    IF i > Len(patterns) THEN [ret |-> acc, panic |-> FALSE]
    ELSE LET re == ReplaceAll(patterns[i], flag) IN
         IF ~Compiles(re) THEN [ret |-> <<>>, panic |-> TRUE]
         ELSE PatternsFrom(patterns, i + 1, flag, text,
                           acc \o Captures(FindAllStringSubmatch(re, text)))

FilePatternAliases(a, flag, d, cache, fsys) ==
    LET fc == FileContents(a, d, cache, fsys)
        ex == PatternsFrom(a.Patterns, 1, flag, fc.buf, <<>>)
    IN  IF fc.err # NoErr THEN Outcome(<<>>, fc.err, "error", FALSE, <<>>)
        ELSE IF ex.panic THEN Outcome(<<>>, NoErr, "panic", FALSE, fc.buf)
        ELSE Outcome(ex.ret, NoErr, "ok", FALSE, fc.buf)

\* HasDeadline with a zero timeout taken as a deadline.
HasDeadlineNonNegative(a) == a.Timeout # <<>> /\ a.Timeout[1] >= 0

\* a.Timeout != nil && *a.Timeout > 0
HasDeadline(a) == a.Timeout # <<>> /\ a.Timeout[1] > 0

\* strings.Split(*a.Command, " ")
Tokens(command) == SelectSeq(command, LAMBDA t : t # " ")

\* exec.CommandContext and cmd.Output: the process is killed when the
\* context's deadline passes before it exits.
CommandAliases(a, flag, proc) ==
    LET tokens == Tokens(a.Command)
        parsed == Unmarshal(proc.stdout)
    IN  IF ~proc.started
        THEN Outcome(<<>>, Error("failed to execute alias command", <<>>,
                                 <<"spawn", tokens[1]>>), "error", FALSE, <<>>)
        ELSE IF HasDeadline(a) /\ (~proc.exits \/ proc.secs > a.Timeout[1])
        THEN Outcome(<<>>, Error("failed to execute alias command", <<>>,
                                 <<"deadline">>), "error", TRUE, <<>>)
        ELSE IF ~proc.exits
        THEN Outcome(<<>>, NoErr, "blocked", FALSE, <<>>)
        ELSE IF proc.code # 0
        THEN Outcome(<<>>, Error("failed to execute alias command", <<>>,
                                 <<"exit">>), "error", FALSE, <<>>)
        ELSE IF parsed.err
        THEN Outcome(<<>>, Error("could not unmarshal json output of alias command",
                                 <<>>, <<>>), "error", FALSE, <<>>)
        ELSE Outcome(parsed.val, NoErr, "ok", FALSE, <<>>)

generateAlias(a, flag, d, cache, fsys, proc) ==
    CASE a.Type = "literal"     -> Outcome(LiteralAliases(a, flag), NoErr, "ok", FALSE, <<>>)
      [] a.Type \in CaseTypes   -> Outcome(<<CaseAlias(a.Type, flag)>>, NoErr, "ok", FALSE, <<>>)
      [] a.Type = "filepattern" -> FilePatternAliases(a, flag, d, cache, fsys)
      [] a.Type = "command"     -> CommandAliases(a, flag, proc)
      [] OTHER                  -> Outcome(<<>>, NoErr, "ok", FALSE, <<>>)

\* ------------------------------------------------------ GenerateAliases
\* Accumulate with the rule's output replacing what was accumulated.
AccumulateOverwrite(acc, flagAliases) == flagAliases

\* append(ret[flag], flagAliases...)
Accumulate(acc, flagAliases) == acc \o flagAliases

\* ErrorResult handing the partly filled map to the caller.
ErrorResultPartial(m) == <<m>>

\* return nil, err: the map m built so far is dropped.
ErrorResult(m) == <<>>

\* One iteration of the inner loop: rule ri applied to flag fi.
EvalRule ==
    /\ pc = "eval"
    /\ fi <= Len(flags)
    /\ ri <= Len(aliases)
    /\ \E proc \in ProcChoices :
         LET a == aliases[ri]
             flag == flags[fi]
             o == generateAlias(a, flag, Dir, allFileContents, fs, proc)
         IN  /\ a.Type # "command" => proc = CHOOSE q \in ProcChoices : TRUE
             /\ evals' = Append(evals, [fi |-> fi, ri |-> ri, proc |-> proc, out |-> o])
             /\ CASE o.how = "ok" ->
                       /\ ret' = MapSet(ret, flag, Accumulate(MapGet(ret, flag), o.ret))
                       /\ ri' = ri + 1
                       /\ UNCHANGED <<pc, result, err>>
                  [] o.how = "error" ->
                       /\ pc' = "failed"
                       /\ err' = o.err
                       /\ result' = ErrorResult(ret)
                       /\ UNCHANGED <<ret, ri>>
                  [] OTHER ->
                       /\ pc' = o.how
                       /\ UNCHANGED <<ret, ri, result, err>>
    /\ UNCHANGED <<flags, aliases, fs, idx, allFileContents, reads, checks, fi>>

\* EndFlag with the store skipped for a flag no rule has made an entry for.
EndFlagStoreIfPresent ==
    /\ pc = "eval"
    /\ fi <= Len(flags)
    /\ ri > Len(aliases)
    /\ ret' = IF flags[fi] \in DOMAIN ret
              THEN MapSet(ret, flags[fi], Dedupe(MapGet(ret, flags[fi])))
              ELSE ret
    /\ fi' = fi + 1
    /\ ri' = 1
    /\ UNCHANGED <<flags, aliases, fs, pc, idx, allFileContents, reads, checks,
                   result, err, evals>>

\* After the last rule: ret[flag] = helpers.Dedupe(ret[flag]), next flag.
EndFlag ==
    /\ pc = "eval"
    /\ fi <= Len(flags)
    /\ ri > Len(aliases)
    /\ ret' = MapSet(ret, flags[fi], Dedupe(MapGet(ret, flags[fi])))
    /\ fi' = fi + 1
    /\ ri' = 1
    /\ UNCHANGED <<flags, aliases, fs, pc, idx, allFileContents, reads, checks,
                   result, err, evals>>

\* return ret, nil
Return ==
    /\ pc = "eval"
    /\ fi > Len(flags)
    /\ pc' = "returned"
    /\ result' = <<ret>>
    /\ err' = NoErr
    /\ UNCHANGED <<flags, aliases, fs, idx, allFileContents, reads, checks, fi, ri,
                   ret, evals>>

Init ==
    /\ flags \in DistinctSeqs(FlagKeys, MaxFlags)
    /\ aliases \in SeqsUpTo(RuleChoices, MaxRules)
    /\ fs \in FsChoices
    /\ pc = "cache"
    /\ idx = 1
    /\ allFileContents = <<>>
    /\ reads = [p \in AllPaths |-> 0]
    /\ checks = [p \in AllPaths |-> 0]
    /\ fi = 1
    /\ ri = 1
    /\ ret = <<>>
    /\ result = <<>>
    /\ err = NoErr
    /\ evals = <<>>

Next == ProcessFileContent \/ CacheBuilt \/ EvalRule \/ EndFlag \/ Return

Spec == Init /\ [][Next]_vars


\* ================================================================ claims
NoDuplicates(s) == \A i, j \in 1..Len(s) : i # j => s[i] # s[j]
Last(s) == s[Len(s)]
RuleOf(e) == aliases[e.ri]
FlagOf(e) == flags[e.fi]
PathX == JoinPath(Dir, "x")

\* ---- C1
\* C1: whenever GenerateAliases returns successfully, the returned mapping
\* has exactly one entry per requested flag key and none for any other key,
\* for every rule list; a flag for which the rules produced no alias has an
\* entry holding the empty list.
C1_OneEntryPerFlag ==
    pc = "returned" =>
        /\ result # <<>>
        /\ DOMAIN result[1] = Range(flags)
        /\ \A k \in 1..Len(flags) :
              (\A i \in 1..Len(evals) : evals[i].fi = k => evals[i].out.ret = <<>>)
                  => result[1][flags[k]] = <<>>

\* A successful call with two flags and no rule at all.
C1_Witness ==
    /\ pc = "returned"
    /\ aliases = <<>>
    /\ Len(flags) = 2
    /\ \A f \in Range(flags) : result[1][f] = <<>>

\* ---- C2
\* The outputs of all rules for the k-th flag, concatenated in rule order.
OutsOf(k) ==
    Flatten([r \in 1..Len(aliases) |-> evals[(k - 1) * Len(aliases) + r].out.ret])

FirstIndex(c, v) == CHOOSE i \in 1..Len(c) : c[i] = v /\ \A j \in 1..(i - 1) : c[j] # v

\* r is c with every repeat of an already-present element removed.
IsStableDedupe(r, c) ==
    /\ NoDuplicates(r)
    /\ Range(r) = Range(c)
    /\ \A i, j \in 1..Len(r) : i < j => FirstIndex(c, r[i]) < FirstIndex(c, r[j])

\* C2: for every flag the stored alias list is the concatenation of the
\* outputs of all rules in configured rule order with every repeat of an
\* already-present string removed (first occurrence keeps its position); in
\* particular it holds no duplicate string.
C2_DedupedConcatenation ==
    pc = "returned" =>
        /\ Len(evals) = Len(flags) * Len(aliases)
        /\ \A k \in 1..Len(flags) :
              /\ \A r \in 1..Len(aliases) :
                    LET e == evals[(k - 1) * Len(aliases) + r]
                    IN  e.fi = k /\ e.ri = r /\ e.out.how = "ok"
              /\ IsStableDedupe(result[1][flags[k]], OutsOf(k))

\* Two rules of different types whose outputs for one flag overlap: the
\* stored list is shorter than the concatenation.
C2_Witness ==
    /\ pc = "returned"
    /\ Len(aliases) = 2
    /\ aliases[1].Type # aliases[2].Type
    /\ \E k \in 1..Len(flags) :
          /\ evals[(k - 1) * 2 + 1].out.ret # <<>>
          /\ evals[(k - 1) * 2 + 2].out.ret # <<>>
          /\ Len(result[1][flags[k]]) < Len(OutsOf(k))

\* ---- C3
\* C3: GenerateAliases is fail-fast: the first error of the cache build or of
\* a generateAlias call ends the call, no later (flag, rule) pair is
\* evaluated, and the caller gets that error and a nil mapping, whatever was
\* accumulated for earlier flags.
C3_FailFast ==
    /\ \A i \in 1..Len(evals) :
          evals[i].out.how = "error" =>
              /\ i = Len(evals)
              /\ pc = "failed"
              /\ err = evals[i].out.err
    /\ pc = "failed" =>
          /\ result = <<>>
          /\ err # NoErr
          /\ idx <= Len(aliases) => evals = <<>>
          /\ evals # <<>> => Last(evals).out.how = "error"

\* The second flag fails after the first flag was fully resolved with
\* aliases.
C3_Witness ==
    /\ pc = "failed"
    /\ fi = 2
    /\ flags[1] \in DOMAIN ret
    /\ ret[flags[1]] # <<>>
    /\ result = <<>>


\* ---- C4
\* Some template of rule a does not compile once FLAG_KEY is replaced by flag.
BadTemplate(a, flag) ==
    \E p \in 1..Len(a.Patterns) : ~Compiles(ReplaceAll(a.Patterns[p], flag))

\* C4: when a file-pattern rule's template, after FLAG_KEY is replaced by the
\* flag key, is not a valid regular expression, the call ends with an error
\* returned to the caller and in no other way.
C4_CompileErrorReturned ==
    \A i \in 1..Len(evals) :
        (/\ RuleOf(evals[i]).Type = "filepattern"
         /\ \A g \in Range(RuleOf(evals[i]).Paths) : ValidPattern(g)
         /\ BadTemplate(RuleOf(evals[i]), FlagOf(evals[i])))
            => /\ pc = "failed"
               /\ err # NoErr
               /\ result = <<>>

\* ---- C5
\* C5: during the cache build every path is checked for existence and read
\* at most once, however many globs and rules match it; a cached path was
\* read exactly once and holds the file's content.
C5_ReadAtMostOnce ==
    \A p \in AllPaths :
        /\ reads[p] <= 1
        /\ checks[p] <= 1
        /\ p \in DOMAIN allFileContents =>
              /\ reads[p] = 1
              /\ checks[p] = 1
              /\ allFileContents[p] = fs[p[3]].data

\* Two file-pattern rules that both match file x, loaded with one read.
C5_Witness ==
    /\ pc = "eval"
    /\ Len(aliases) = 2
    /\ \A r \in 1..2 : aliases[r].Type = "filepattern" /\ "x" \in Range(aliases[r].Paths)
    /\ aliases[1] # aliases[2]
    /\ reads[PathX] = 1
    /\ PathX \in DOMAIN allFileContents

\* ---- C6
\* Every path a glob of a file-pattern rule matches has its cache entry.
CacheComplete ==
    \A r \in 1..Len(aliases) :
        aliases[r].Type = "filepattern" =>
            \A g \in Range(aliases[r].Paths) :
                \A n \in Range(Glob(fs, g).matches) :
                    JoinPath(Dir, n) \in DOMAIN allFileContents

\* C6: the cache is completely built before the first (flag, rule) pair is
\* evaluated, and from then on no step changes a cache entry or reads or
\* checks a file.
C6_CacheBuiltThenFrozen ==
    /\ [](evals # <<>> => (idx > Len(aliases) /\ CacheComplete))
    /\ [][pc = "eval" =>
             /\ allFileContents' = allFileContents
             /\ reads' = reads
             /\ checks' = checks]_vars

\* A file-pattern rule evaluated against a cache that holds two files.
C6_Witness ==
    /\ pc = "eval"
    /\ evals # <<>>
    /\ Last(evals).out.how = "ok"
    /\ RuleOf(Last(evals)).Type = "filepattern"
    /\ Cardinality(DOMAIN allFileContents) = 2

\* ---- C7
\* C7: a command rule with a timeout greater than zero whose process has not
\* exited by the deadline is killed, yields the deadline error and no
\* aliases, and the call fails; with the timeout absent or not greater than
\* zero the process is never killed, however long it runs.
C7_Deadline ==
    \A i \in 1..Len(evals) :
        LET e == evals[i]
            t == RuleOf(e).Timeout
        IN  (RuleOf(e).Type = "command" /\ e.proc.started) =>
               /\ (t # <<>> /\ t[1] > 0 /\ (~e.proc.exits \/ e.proc.secs > t[1])) =>
                     /\ e.out.killed
                     /\ e.out.how = "error"
                     /\ e.out.err.arg = <<"deadline">>
                     /\ e.out.ret = <<>>
                     /\ pc = "failed"
                     /\ result = <<>>
               /\ (t = <<>> \/ t[1] <= 0) =>
                     /\ ~e.out.killed
                     /\ ~e.proc.exits => e.out.how = "blocked"
                     /\ (e.proc.exits /\ e.proc.code = 0 /\ ~Unmarshal(e.proc.stdout).err)
                           => e.out.how = "ok"

\* A process that needs two seconds under a one-second timeout is killed.
C7_Witness ==
    /\ pc = "failed"
    /\ evals # <<>>
    /\ RuleOf(Last(evals)).Timeout = <<1>>
    /\ Last(evals).proc.exits
    /\ Last(evals).proc.secs = 2
    /\ Last(evals).out.killed

\* ---- C8
\* Rule a has a glob that matches no entry of the directory.
HasEmptyGlob(a) == \E g \in Range(a.Paths) : ValidPattern(g) /\ Glob(fs, g).matches = <<>>

\* No template of rule a matches anywhere in text.
NoTemplateMatches(a, flag, text) ==
    \A p \in 1..Len(a.Patterns) :
        FindAllStringSubmatch(ReplaceAll(a.Patterns[p], flag), text) = <<>>

\* C8: zero-match outcomes are success: a glob that matches no file (in the
\* cache build and in the extractor), a template that matches nothing, and a
\* literal rule with no entry or an empty entry for the flag contribute no
\* aliases and make nothing fail.
C8_ZeroMatchIsSuccess ==
    /\ \A i \in 1..Len(evals) :
          LET e == evals[i]
              a == RuleOf(e)
          IN  /\ (a.Type = "literal" /\ MapGet(a.Flags, FlagOf(e)) = <<>>) =>
                    e.out.how = "ok" /\ e.out.ret = <<>>
              /\ (a.Type = "filepattern" /\ \A g \in Range(a.Paths) : ValidPattern(g)) =>
                    /\ e.out.how # "error"
                    /\ (~BadTemplate(a, FlagOf(e))
                        /\ NoTemplateMatches(a, FlagOf(e), e.out.buf)) =>
                          e.out.how = "ok" /\ e.out.ret = <<>>
    /\ (pc = "failed" /\ idx <= Len(aliases)) =>
          \/ \E g \in Range(aliases[idx].Paths) : ~ValidPattern(g)
          \/ \E g \in Range(aliases[idx].Paths) :
                \E n \in Range(Glob(fs, g).matches) : fs[n].status # "ok"

\* A successful call with a file-pattern rule whose only glob matches no
\* file and a literal rule without an entry for the flag.
C8_Witness ==
    /\ pc = "returned"
    /\ \E i, j \in 1..Len(evals) :
          /\ RuleOf(evals[i]).Type = "filepattern"
          /\ HasEmptyGlob(RuleOf(evals[i]))
          /\ evals[i].out.buf = <<>>
          /\ RuleOf(evals[j]).Type = "literal"
          /\ FlagOf(evals[j]) \notin DOMAIN RuleOf(evals[j]).Flags
          /\ evals[i].fi = evals[j].fi
          /\ result[1][FlagOf(evals[i])] = <<>>


\* ---- C9
\* The capture groups of one match m, in group order, without the whole
\* match m[1].
GroupsOnly(m) == [g \in 1..(Len(m) - 1) |-> m[g + 1]]

\* Template by template in rule order, match by match, group by group.
ExpectedCaptures(a, flag, text) ==
    Flatten([p \in 1..Len(a.Patterns) |->
        LET ms == FindAllStringSubmatch(ReplaceAll(a.Patterns[p], flag), text)
        IN  Flatten([k \in 1..Len(ms) |-> GroupsOnly(ms[k])])])

HasGroup(template) == "(" \in Range(template)

\* C9: the output of a file-pattern rule is exactly the capture groups of
\* every match, never the whole match: templates in rule order, matches in
\* match order, groups in group order; a rule whose templates have no capture
\* group yields no alias even when they match.
C9_CaptureGroupsOnly ==
    \A i \in 1..Len(evals) :
        LET e == evals[i]
            a == RuleOf(e)
        IN  (a.Type = "filepattern" /\ e.out.how = "ok") =>
               /\ e.out.ret = ExpectedCaptures(a, FlagOf(e), e.out.buf)
               /\ (\A p \in 1..Len(a.Patterns) : ~HasGroup(a.Patterns[p]))
                     => e.out.ret = <<>>

\* A rule with a template with a group and a template without one, both
\* matching: only the groups of the first are returned.
C9_Witness ==
    \E i \in 1..Len(evals) :
        LET e == evals[i]
            a == RuleOf(e)
        IN  /\ a.Type = "filepattern"
            /\ e.out.how = "ok"
            /\ Len(a.Patterns) = 2
            /\ HasGroup(a.Patterns[1])
            /\ ~HasGroup(a.Patterns[2])
            /\ FindAllStringSubmatch(ReplaceAll(a.Patterns[2], FlagOf(e)), e.out.buf) # <<>>
            /\ e.out.ret = << <<"-">>, <<"b">> >>

\* ---- C10
\* The content a directory entry contributes: the data of a readable file.
ContentOf(n) == IF fs[n].status = "ok" THEN fs[n].data ELSE <<>>

\* Glob by glob in the rule's order, match by match, the content of each
\* matched file, repeated as often as it is matched.
ExpectedBuffer(a) ==
    Flatten([g \in 1..Len(a.Paths) |->
        LET ms == Glob(fs, a.Paths[g]).matches
        IN  Flatten([j \in 1..Len(ms) |-> ContentOf(ms[j])])])

\* C10: the buffer a file-pattern rule's templates are matched against is the
\* concatenation of the contents of the matched files, glob by glob in the
\* rule's glob order and within a glob in match order; a file matched by two
\* globs of the rule contributes twice, an empty file contributes nothing,
\* and a match may span the boundary between two files' contents.
C10_BufferIsConcatenation ==
    \A i \in 1..Len(evals) :
        (RuleOf(evals[i]).Type = "filepattern" /\ evals[i].out.how \in {"ok", "panic"})
            => evals[i].out.buf = ExpectedBuffer(RuleOf(evals[i]))

\* File x is matched by both globs of the rule and is in the buffer twice,
\* and the match of a-b(.) starts in x's content and ends in y's.
C10_Witness ==
    \E i \in 1..Len(evals) :
        LET e == evals[i]
            a == RuleOf(e)
        IN  /\ a.Type = "filepattern"
            /\ a.Paths = <<"*", "x">>
            /\ FlagOf(e) = K2
            /\ e.out.buf = ContentOf("x") \o ContentOf("y") \o ContentOf("x")
            /\ Len(ContentOf("x")) = 2
            /\ MatchAt(ReplaceAll(a.Patterns[1], K2), e.out.buf, 1)
            /\ e.out.ret = << <<"a">> >>

=============================================================================
